---- MODULE Spec2Model ----
(***************************************************************************)
(* media_organizer: the plan/apply pipeline.                               *)
(*                                                                         *)
(* Strings are sequences of ASCII codes and paths are sequences of         *)
(* components, so that extension parsing, case folding, path ordering and  *)
(* date formatting are computed the way the Rust code computes them.       *)
(* Option<T> is a sequence of length 0 (None) or 1 (Some).                 *)
(***************************************************************************)
EXTENDS Integers, Sequences, FiniteSets, TLC

VARIABLES
    \* ---- apply phase (src/src/apply.rs) ----
    manifest,       \* the items handed to apply_items
    fs,             \* the output tree: a set of [path, content] files
    apc,            \* position of apply_items: "idle", "loop", "Ok", "Err"
    error,          \* the error apply_items returned with, "" when none
    idx,            \* number of manifest items already processed in this run
    run,            \* which apply run this is: "none", "first", "second"
    summary,        \* the ApplySummary of the current run
    prev,           \* Option: how the run before this one ended, and its summary
    ok_log, fail_log, dup_log,   \* the three append-only logs
    calls,          \* the copy/transcode calls dispatched in this run
    \* ---- plan phase (src/src/plan.rs) ----
    tree,           \* the entries the walk will yield
    seen,           \* the entries the walk has yielded
    ppc,            \* position of build_plan: "walk", "dvds", "Ok", "Err"
    perror,         \* the error build_plan returned with, "" when none
    planned,        \* Vec<PlannedItem>
    psummary,       \* PlanSummary
    dvd_roots,      \* HashSet<PathBuf>
    env,            \* what the collaborators answered, per source path
    \* ---- plan_dst as a pure function ----
    dst_in, dst_out,
    \* ---- reading the manifest (src/src/apply.rs read_manifest_jsonl) ----
    file,           \* the lines of the manifest file
    rpc,            \* position: "idle", "lines", "Ok", "Err", "applying"
    rpos,           \* number of lines consumed
    read_items,     \* Vec<PlannedItem> read so far (items)
    rerror          \* the error returned: [kind, line], kind "" when none

avars == <<manifest, fs, apc, error, idx, run, summary, prev, ok_log, fail_log, dup_log, calls>>
pvars == <<tree, seen, ppc, perror, planned, psummary, dvd_roots, env>>
dvars == <<dst_in, dst_out>>
rvars == <<file, rpc, rpos, read_items, rerror>>
vars == <<avars, pvars, dvars, rvars>>

----------------------------------------------------------------------------
(* Option<T> *)
None == <<>>
Some(x) == <<x>>
IsSome(o) == Len(o) = 1
IsNone(o) == Len(o) = 0
Unwrap(o) == o[1]

----------------------------------------------------------------------------
(* Strings: sequences of ASCII codes *)

\* u8::to_ascii_lowercase: 'A'..'Z' (65..90) map to 'a'..'z'
LowerChar(c) == IF c >= 65 /\ c <= 90 THEN c + 32 ELSE c

to_ascii_lowercase(s) == [k \in 1..Len(s) |-> LowerChar(s[k])]

eq_ignore_ascii_case(s, t) == to_ascii_lowercase(s) = to_ascii_lowercase(t)

\* byte-wise lexicographic order of two strings (str::cmp)
RECURSIVE StrLess(_, _)
StrLess(s, t) ==
    IF Len(t) = 0 THEN FALSE
    ELSE IF Len(s) = 0 THEN TRUE
    ELSE IF s[1] # t[1] THEN s[1] < t[1]
    ELSE StrLess(Tail(s), Tail(t))

\* position of the last '.' (46) of a name, 0 when it has none
RECURSIVE LastDot(_, _)
LastDot(name, k) ==
    IF k = 0 THEN 0
    ELSE IF name[k] = 46 THEN k
    ELSE LastDot(name, k - 1)

S_jpg == <<106,112,103>>
S_jpeg == <<106,112,101,103>>
S_png == <<112,110,103>>
S_mp4 == <<109,112,52>>
S_avi == <<97,118,105>>
S_mov == <<109,111,118>>
S_m4v == <<109,52,118>>
S_vob == <<118,111,98>>
S_ifo == <<105,102,111>>
S_bup == <<98,117,112>>
S_VIDEO_TS == <<86,73,68,69,79,95,84,83>>
S_Photos == <<80,104,111,116,111,115>>
S_Videos == <<86,105,100,101,111,115>>
S_DVDs == <<68,86,68,115>>
S_UnknownDate == <<85,110,107,110,111,119,110,68,97,116,101>>
S_file == <<102,105,108,101>>
S_DVD == <<68,86,68>>

----------------------------------------------------------------------------
(* Paths: sequences of components (std::path) *)

\* Path::to_string_lossy: the components joined by '/' (47)
RECURSIVE PathStr(_)
PathStr(p) ==
    IF Len(p) = 0 THEN <<>>
    ELSE IF Len(p) = 1 THEN p[1]
    ELSE p[1] \o <<47>> \o PathStr(Tail(p))

\* PathBuf::from(&str): the string cut at every '/'
RECURSIVE SplitFrom(_, _, _)
SplitFrom(s, k, cur) ==
    IF k > Len(s) THEN (IF Len(cur) = 0 THEN <<>> ELSE <<cur>>)
    ELSE IF s[k] = 47
         THEN (IF Len(cur) = 0 THEN <<>> ELSE <<cur>>) \o SplitFrom(s, k + 1, <<>>)
         ELSE SplitFrom(s, k + 1, Append(cur, s[k]))

PathFrom(s) == SplitFrom(s, 1, <<>>)

\* impl Ord for Path: the components compared one by one
RECURSIVE PathLess(_, _)
PathLess(p, q) ==
    IF Len(q) = 0 THEN FALSE
    ELSE IF Len(p) = 0 THEN TRUE
    ELSE IF p[1] # q[1] THEN StrLess(p[1], q[1])
    ELSE PathLess(Tail(p), Tail(q))

\* Path::file_name (every component of the model is a normal one)
file_name(p) == IF Len(p) = 0 THEN None ELSE Some(p[Len(p)])

\* Path::parent
parent(p) == IF Len(p) = 0 THEN None ELSE Some(SubSeq(p, 1, Len(p) - 1))

\* Path::extension: what follows the last '.' of the file name; none when
\* the name has no '.', or only a leading one
extension(p) ==
    IF Len(p) = 0 THEN None
    ELSE LET name == p[Len(p)]
             d == LastDot(name, Len(name))
         IN IF d <= 1 THEN None ELSE Some(SubSeq(name, d + 1, Len(name)))

\* Path::file_stem: what precedes the last '.'; the whole name when the
\* name has no '.', or only a leading one
file_stem(p) ==
    IF Len(p) = 0 THEN None
    ELSE LET name == p[Len(p)]
             d == LastDot(name, Len(name))
         IN IF d <= 1 THEN Some(name) ELSE Some(SubSeq(name, 1, d - 1))

----------------------------------------------------------------------------
(* classify.rs *)

normalize_extension(p) ==
    IF IsSome(extension(p)) THEN Some(to_ascii_lowercase(Unwrap(extension(p)))) ELSE None

classify(p) ==
    LET e == normalize_extension(p) IN
    IF e \in {Some(S_jpg), Some(S_jpeg), Some(S_png)} THEN "Photo"
    ELSE IF e \in {Some(S_mp4), Some(S_avi), Some(S_mov), Some(S_m4v)} THEN "Video"
    ELSE IF e \in {Some(S_vob), Some(S_ifo), Some(S_bup)} THEN "Dvd"
    ELSE "Ignore"

is_jpeg(p) == normalize_extension(p) \in {Some(S_jpg), Some(S_jpeg)}

----------------------------------------------------------------------------
(* dvd.rs *)

\* a slip: the component is compared with "VIDEO_TS" as it is spelled
is_inside_video_ts_CaseSensitive(p) == \E k \in 1..Len(p) : p[k] = S_VIDEO_TS

is_inside_video_ts(p) == \E k \in 1..Len(p) : eq_ignore_ascii_case(p[k], S_VIDEO_TS)

dvd_root_from_video_ts_dir(p) ==
    IF IsNone(file_name(p)) THEN None
    ELSE IF eq_ignore_ascii_case(Unwrap(file_name(p)), S_VIDEO_TS) THEN parent(p)
    ELSE None

----------------------------------------------------------------------------
(* Dates: NaiveDateTime as [y, m, d, h, mi, s] *)

\* the decimal digits of n, zero-padded to w places
RECURSIVE Digits(_, _)
Digits(n, w) == IF w = 0 THEN <<>> ELSE Append(Digits(n \div 10, w - 1), 48 + (n % 10))

FmtY(dt) == Digits(dt.y, 4)
FmtYm(dt) == Digits(dt.y, 4) \o <<45>> \o Digits(dt.m, 2)
FmtYmd(dt) == Digits(dt.y, 4) \o <<45>> \o Digits(dt.m, 2) \o <<45>> \o Digits(dt.d, 2)

\* time.rs format_dt: "%Y-%m-%d %H:%M:%S"
format_dt(dt) ==
    FmtYmd(dt) \o <<32>> \o Digits(dt.h, 2) \o <<58>> \o Digits(dt.mi, 2) \o <<58>> \o Digits(dt.s, 2)

----------------------------------------------------------------------------
(* plan.rs: the destination planner *)

safe_stem(p) == IF IsSome(file_stem(p)) THEN Unwrap(file_stem(p)) ELSE S_file

\* a slip: the undated folder is nested like a dated one
plan_dst_NestedUnknown(out_root, kind, src, best_dt) ==
    LET base == CASE kind = "Photo" -> Append(out_root, S_Photos)
                  [] kind = "Video" -> Append(out_root, S_Videos)
                  [] kind = "Dvd" -> Append(out_root, S_DVDs)
        year == IF IsSome(best_dt) THEN FmtY(Unwrap(best_dt)) ELSE S_UnknownDate
        ym == IF IsSome(best_dt) THEN FmtYm(Unwrap(best_dt)) ELSE S_UnknownDate
        ymd == IF IsSome(best_dt) THEN FmtYmd(Unwrap(best_dt)) ELSE S_UnknownDate
        dir == Append(Append(Append(base, year), ym), ymd)
        ext == IF kind = "Photo"
               THEN (IF IsSome(normalize_extension(src))
                     THEN Unwrap(normalize_extension(src)) ELSE S_jpg)
               ELSE S_mp4
        name == IF kind = "Dvd"
                THEN (IF IsSome(file_name(src)) THEN Unwrap(file_name(src)) ELSE S_DVD)
                ELSE safe_stem(src)
    IN Append(dir, name \o <<46>> \o ext)

plan_dst(out_root, kind, src, best_dt) ==
    LET base == CASE kind = "Photo" -> Append(out_root, S_Photos)
                  [] kind = "Video" -> Append(out_root, S_Videos)
                  [] kind = "Dvd" -> Append(out_root, S_DVDs)
        year == IF IsSome(best_dt) THEN FmtY(Unwrap(best_dt)) ELSE S_UnknownDate
        ym == IF IsSome(best_dt) THEN FmtYm(Unwrap(best_dt)) ELSE S_UnknownDate
        ymd == IF IsSome(best_dt) THEN FmtYmd(Unwrap(best_dt)) ELSE S_UnknownDate
        dir == IF year = S_UnknownDate
               THEN Append(base, S_UnknownDate)
               ELSE Append(Append(Append(base, year), ym), ymd)
        ext == IF kind = "Photo"
               THEN (IF IsSome(normalize_extension(src))
                     THEN Unwrap(normalize_extension(src)) ELSE S_jpg)
               ELSE S_mp4
        name == IF kind = "Dvd"
                THEN (IF IsSome(file_name(src)) THEN Unwrap(file_name(src)) ELSE S_DVD)
                ELSE safe_stem(src)
    IN Append(dir, name \o <<46>> \o ext)

\* a slip: the extension is compared with "avi" as it is spelled
action_for_video_CaseSensitive(p) ==
    IF extension(p) = Some(S_avi) THEN "ConvertVideo" ELSE "Copy"

action_for_video(p) ==
    IF normalize_extension(p) = Some(S_avi) THEN "ConvertVideo" ELSE "Copy"

----------------------------------------------------------------------------
(* Bounds *)

MaxItems == 2       \* longest manifest handed to apply

----------------------------------------------------------------------------
(* apply.rs: the apply executor *)

Actions == {"Copy", "ConvertVideo", "ConvertDvd"}

\* ApplySummary::new
NewApplySummary ==
    [total |-> 0, copied |-> 0, converted_video |-> 0, converted_dvd |-> 0,
     skipped_existing |-> 0, skipped_dupliace |-> 0, failed |-> 0]

\* A PlannedItem as apply reads it back from the manifest
Item(kind, action, src, dst, dup) ==
    [kind |-> kind, action |-> action, src |-> src, dst |-> dst,
     best_dt |-> None, date_source |-> "None", size_bytes |-> None,
     content_hash |-> None, duplicate_of |-> dup]

\* The manifests apply is run on: item k has the source "a", "b", ... (the
\* sources of a manifest are distinct, one per planned input), any action,
\* one of the destinations "x", "y", and duplicate_of None or Some("a").
SrcAt(k) == <<96 + k>>
ApplyDsts == {<<120>>, <<121>>}

KindOfAction(a) ==
    CASE a = "Copy" -> "Photo" [] a = "ConvertVideo" -> "Video" [] a = "ConvertDvd" -> "Dvd"

ItemsAt(k) ==
    { Item(KindOfAction(a), a, SrcAt(k), d, dup) :
        a \in Actions, d \in ApplyDsts, dup \in {None, Some(SrcAt(1))} }

RECURSIVE Manifests(_)
Manifests(n) ==
    IF n = 0 THEN {<<>>}
    ELSE LET shorter == Manifests(n - 1)
         IN shorter \cup { Append(q, x) : q \in {r \in shorter : Len(r) = n - 1}, x \in ItemsAt(n) }

\* a slip: the existence test never answers yes
Exists_Never(dst) == FALSE

\* a slip: a destination whose call failed is remembered as dealt with
Exists_OrFailedBefore(dst) ==
    \/ \E f \in fs : f.path = dst
    \/ \E k \in 1..Len(fail_log) : fail_log[k].dst = dst

\* Path::exists on the output tree
Exists(dst) == \E f \in fs : f.path = dst

\* What a collaborator call can come to: ok or an error text, and what it
\* leaves at the destination ("full", "partial" or "none").
Outcome(ok, err, left) == [ok |-> ok, err |-> err, left |-> left]

\* copy_file: ensure_parent_dir may fail; fs::copy may fail, before or after
\* it has created the destination
copy_file ==
    { Outcome(TRUE, "", "full"), Outcome(FALSE, "mkdir", "none"),
      Outcome(FALSE, "copy", "none"), Outcome(FALSE, "copy", "partial") }

\* video.rs ffmpeg_convert_to_mp4: ensure_parent_dir may fail, the spawn may
\* fail, ffmpeg may exit non-zero (with or without a file left behind)
ffmpeg_convert_to_mp4 ==
    { Outcome(TRUE, "", "full"), Outcome(FALSE, "mkdir", "none"),
      Outcome(FALSE, "failed to spawn ffmpeg", "none"),
      Outcome(FALSE, "ffmpeg failed converting", "none"),
      Outcome(FALSE, "ffmpeg failed converting", "partial") }

\* ffmpeg_convert_dvd_to_mp4: the transcoder boundary of the DVD variant,
\* which produces the destination or fails leaving nothing
ffmpeg_convert_dvd_to_mp4 ==
    { Outcome(TRUE, "", "full"), Outcome(FALSE, "dvd transcode failed", "none") }

Dispatch(action) ==
    CASE action = "Copy" -> copy_file
      [] action = "ConvertVideo" -> ffmpeg_convert_to_mp4
      [] action = "ConvertDvd" -> ffmpeg_convert_dvd_to_mp4

\* the output tree after a call: fs::copy and ffmpeg -y create the destination
\* or replace what is there
Written(item, out) ==
    IF out.left = "none" THEN fs
    ELSE { f \in fs : f.path # item.dst } \cup
         {[path |-> item.dst,
           content |-> [made |-> IF out.left = "partial" THEN "partial" ELSE item.action,
                        of |-> Some(item.src)]]}

OkLine(item) == [tag |-> "OK", action |-> item.action, src |-> item.src, dst |-> item.dst]
FailLine(item, e) ==
    [tag |-> "FAIL", action |-> item.action, src |-> item.src, dst |-> item.dst, err |-> e]
DupLine(item) == [tag |-> "SKIP_DUP", src |-> item.src, dup_of |-> Unwrap(item.duplicate_of)]

Bump(s, field) == [s EXCEPT ![field] = @ + 1]

CountOf(action) ==
    CASE action = "Copy" -> "copied"
      [] action = "ConvertVideo" -> "converted_video"
      [] action = "ConvertDvd" -> "converted_dvd"

\* a slip: duplicate_of is not looked at
IsDuplicate_Never(item) == FALSE

\* the guards of the loop body, in the order the code tests them
IsDuplicate(item) == IsSome(item.duplicate_of)
SkipsExisting(item) == ~IsDuplicate(item) /\ Exists(item.dst)
Dispatches(item) == ~IsDuplicate(item) /\ ~Exists(item.dst)

\* apply_items, lines 65-78: open the three logs (append, create), start the
\* summary. The manifest is applied once and may then be applied once more.
ApplyOpen ==
    /\ apc \in {"idle", "Ok", "Err"}
    /\ run \in {"none", "first"}
    /\ run' = IF run = "none" THEN "first" ELSE "second"
    /\ prev' = IF apc = "idle" THEN None ELSE Some([result |-> apc, summary |-> summary])
    /\ \E opened \in BOOLEAN :
         /\ apc' = IF opened THEN "loop" ELSE "Err"
         /\ error' = IF opened THEN "" ELSE "open log"
    /\ idx' = 0
    /\ summary' = NewApplySummary
    /\ calls' = <<>>
    /\ UNCHANGED <<manifest, fs, ok_log, fail_log, dup_log, pvars, dvars, rvars>>

\* one turn of the loop on an item with duplicate_of set (lines 81-87)
ApplySkipDuplicate ==
    /\ apc = "loop" /\ idx < Len(manifest)
    /\ LET item == manifest[idx + 1] IN
       /\ IsDuplicate(item)
       /\ summary' = Bump(Bump(summary, "total"), "skipped_dupliace")
       /\ idx' = idx + 1
       /\ \E written \in BOOLEAN :
            /\ dup_log' = IF written THEN Append(dup_log, DupLine(item)) ELSE dup_log
            /\ apc' = IF written THEN "loop" ELSE "Err"
            /\ error' = IF written THEN "" ELSE "write log"
    /\ UNCHANGED <<manifest, fs, run, prev, ok_log, fail_log, calls, pvars, dvars, rvars>>

\* a slip: the item is counted in total only once it is dispatched
ApplySkipExisting_NotInTotal ==
    /\ apc = "loop" /\ idx < Len(manifest)
    /\ LET item == manifest[idx + 1] IN
       /\ SkipsExisting(item)
       /\ summary' = Bump(summary, "skipped_existing")
       /\ idx' = idx + 1
    /\ UNCHANGED <<manifest, fs, apc, error, run, prev, ok_log, fail_log, dup_log, calls, pvars, dvars, rvars>>

\* one turn of the loop on an item whose destination exists (lines 81, 89-95)
ApplySkipExisting ==
    /\ apc = "loop" /\ idx < Len(manifest)
    /\ LET item == manifest[idx + 1] IN
       /\ SkipsExisting(item)
       /\ summary' = Bump(Bump(summary, "total"), "skipped_existing")
       /\ idx' = idx + 1
    /\ UNCHANGED <<manifest, fs, apc, error, run, prev, ok_log, fail_log, dup_log, calls, pvars, dvars, rvars>>

\* a slip: the call's error is propagated with `?` instead of being matched
ApplyDispatch_Propagate ==
    /\ apc = "loop" /\ idx < Len(manifest)
    /\ LET item == manifest[idx + 1] IN
       /\ Dispatches(item)
       /\ \E out \in Dispatch(item.action), written \in BOOLEAN :
            /\ calls' = Append(calls, [at |-> idx + 1, action |-> item.action,
                                       src |-> item.src, dst |-> item.dst,
                                       ok |-> out.ok, err |-> out.err])
            /\ fs' = Written(item, out)
            /\ summary' = IF out.ok THEN Bump(Bump(summary, "total"), CountOf(item.action))
                          ELSE Bump(summary, "total")
            /\ ok_log' = IF out.ok /\ written THEN Append(ok_log, OkLine(item)) ELSE ok_log
            /\ fail_log' = fail_log
            /\ apc' = IF out.ok /\ written THEN "loop" ELSE "Err"
            /\ error' = IF ~out.ok THEN out.err ELSE IF written THEN "" ELSE "write log"
       /\ idx' = idx + 1
    /\ UNCHANGED <<manifest, run, prev, dup_log, pvars, dvars, rvars>>

\* one turn of the loop that dispatches the item's action (lines 81, 89-124)
ApplyDispatch ==
    /\ apc = "loop" /\ idx < Len(manifest)
    /\ LET item == manifest[idx + 1] IN
       /\ Dispatches(item)
       /\ \E out \in Dispatch(item.action), written \in BOOLEAN :
            /\ calls' = Append(calls, [at |-> idx + 1, action |-> item.action,
                                       src |-> item.src, dst |-> item.dst,
                                       ok |-> out.ok, err |-> out.err])
            /\ fs' = Written(item, out)
            /\ summary' = IF out.ok THEN Bump(Bump(summary, "total"), CountOf(item.action))
                          ELSE Bump(Bump(summary, "total"), "failed")
            /\ ok_log' = IF out.ok /\ written THEN Append(ok_log, OkLine(item)) ELSE ok_log
            /\ fail_log' = IF ~out.ok /\ written
                           THEN Append(fail_log, FailLine(item, out.err)) ELSE fail_log
            /\ apc' = IF written THEN "loop" ELSE "Err"
            /\ error' = IF written THEN "" ELSE "write log"
       /\ idx' = idx + 1
    /\ UNCHANGED <<manifest, run, prev, dup_log, pvars, dvars, rvars>>

\* the loop is over: Ok(summary) (line 127)
ApplyReturn ==
    /\ apc = "loop" /\ idx = Len(manifest)
    /\ apc' = "Ok"
    /\ UNCHANGED <<manifest, fs, error, idx, run, summary, prev, ok_log, fail_log, dup_log, calls, pvars, dvars, rvars>>

\* the plan-phase and plan_dst variables when only apply runs
PlanIdle ==
    /\ tree = {} /\ seen = {} /\ ppc = "idle" /\ perror = "" /\ planned = <<>>
    /\ psummary = <<>> /\ dvd_roots = {} /\ env = <<>>
DstIdle == dst_in = <<>> /\ dst_out = <<>>
NoReadError == [kind |-> "", line |-> 0]
ReadIdle ==
    file = <<>> /\ rpc = "idle" /\ rpos = 0 /\ read_items = <<>> /\ rerror = NoReadError

OldFile(d) == [path |-> d, content |-> [made |-> "old", of |-> None]]

InitApply ==
    /\ manifest \in Manifests(MaxItems)
    /\ fs \in SUBSET { OldFile(d) : d \in ApplyDsts }
    /\ apc = "idle" /\ error = "" /\ idx = 0 /\ run = "none"
    /\ summary = NewApplySummary /\ prev = None
    /\ ok_log = <<>> /\ fail_log = <<>> /\ dup_log = <<>> /\ calls = <<>>
    /\ PlanIdle /\ DstIdle /\ ReadIdle

NextApply ==
    \/ ApplyOpen
    \/ ApplySkipDuplicate
    \/ ApplySkipExisting
    \/ ApplyDispatch
    \/ ApplyReturn

SpecApply == InitApply /\ [][NextApply]_vars

----------------------------------------------------------------------------
(* The input tree of the plan phase *)

MaxEntries == 4     \* entries below the input root that the walk yields

S_in == <<105,110>>
S_out == <<111,117,116>>
ROOT == <<S_in>>
OUT == <<S_out>>

N_a == <<97>>
N_m == <<109>>
N_video_ts == <<118,105,100,101,111,95,116,115>>
N_x_jpg == <<120,46,106,112,103>>
N_a_jpg == <<97,46,106,112,103>>
N_v_AVI == <<118,46,65,86,73>>
N_v_avi == <<118,46,97,118,105>>
N_w_mov == <<119,46,109,111,118>>
N_y_PNG == <<121,46,80,78,71>>
N_c_jpg == <<99,46,106,112,103>>
N_z_vob == <<122,46,118,111,98>>
N_l_jpg == <<108,46,106,112,103>>

\* What WalkDir yields: Ok(entry) with the entry's file type ("dir", "file",
\* or "other" for a symlink), or Err for a directory that cannot be listed.
Entry(path, type) == [path |-> path, type |-> type]

RootEntry == Entry(ROOT, "dir")

Universe ==
    { Entry(<<S_in, N_a>>, "dir"),
      Entry(<<S_in, N_a, N_x_jpg>>, "file"),
      Entry(<<S_in, N_a_jpg>>, "file"),
      Entry(<<S_in, N_a, N_v_AVI>>, "file"),
      Entry(<<S_in, N_w_mov>>, "file"),
      Entry(<<S_in, N_y_PNG>>, "file"),
      Entry(<<S_in, N_m>>, "dir"),
      Entry(<<S_in, N_m, S_VIDEO_TS>>, "dir"),
      Entry(<<S_in, N_m, S_VIDEO_TS, N_c_jpg>>, "file"),
      Entry(<<S_in, N_a, N_video_ts>>, "dir"),
      Entry(<<S_in, N_a, N_video_ts, N_v_avi>>, "file"),
      Entry(<<S_in, N_z_vob>>, "file"),
      Entry(<<S_in, N_l_jpg>>, "other"),
      Entry(<<S_in, N_m, S_VIDEO_TS>>, "error") }

\* The inputs of the runs that go from plan to apply: photos a.jpg, b.jpg,
\* c.jpg and a video w.mov in the input root, and a second a.jpg one folder
\* down, which is planned to the destination of the first
N_b_jpg == <<98,46,106,112,103>>
FileA == Entry(<<S_in, N_a_jpg>>, "file")
FileB == Entry(<<S_in, N_b_jpg>>, "file")
FileC == Entry(<<S_in, N_c_jpg>>, "file")
FileW == Entry(<<S_in, N_w_mov>>, "file")
DirA == Entry(<<S_in, N_a>>, "dir")
FileAA == Entry(<<S_in, N_a, N_a_jpg>>, "file")

PipelineTrees ==
    { {RootEntry, FileA, FileB, FileC},
      {RootEntry, FileA, FileB},
      {RootEntry, FileA, FileW},
      {RootEntry, FileA, DirA, FileAA} }

AllEntries == Universe \cup UNION PipelineTrees

\* What build_plan computes from the path of an entry, tabulated once for
\* the entries of the model: classify(path) (line 215),
\* dvd::is_inside_video_ts(path) (line 211) and
\* dvd::dvd_root_from_video_ts_dir(path) (line 201)
KindOfEntry == [e \in AllEntries \cup {RootEntry} |-> classify(e.path)]
InsideVideoTs == [e \in AllEntries \cup {RootEntry} |-> is_inside_video_ts(e.path)]
DvdRootOf == [e \in AllEntries \cup {RootEntry} |-> dvd_root_from_video_ts_dir(e.path)]

IsProperPrefix(p, q) == Len(p) < Len(q) /\ SubSeq(q, 1, Len(p)) = p

\* the entries of t that the walk yields while it is inside directory d
Below(d, t) ==
    { x \in t : \/ IsProperPrefix(d.path, x.path)
                \/ x.type = "error" /\ x.path = d.path }

\* the directory whose listing yields e
Lister(e) == IF e.type = "error" THEN Entry(e.path, "dir")
             ELSE Entry(SubSeq(e.path, 1, Len(e.path) - 1), "dir")

\* a tree the walk can yield: every entry is listed by a directory of the
\* tree, and nothing is yielded from a directory that cannot be listed
IsTree(t) ==
    /\ RootEntry \in t
    /\ \A e \in t \ {RootEntry} : Lister(e) \in t
    /\ \A e \in t : e.type = "error" =>
          \A x \in t : ~IsProperPrefix(e.path, x.path)

RECURSIVE SubsetsUpTo(_, _)
SubsetsUpTo(S, n) ==
    IF n = 0 THEN {{}}
    ELSE LET smaller == SubsetsUpTo(S, n - 1)
         IN smaller \cup { q \cup {x} : q \in smaller, x \in S }

Trees == { t \in { q \cup {RootEntry} : q \in SubsetsUpTo(Universe, MaxEntries) } : IsTree(t) }

\* WalkDir is depth-first: e is yielded next when the directory listing it
\* has been yielded and every other directory already entered is finished
WalkNext(e) ==
    /\ e \in tree \ seen
    /\ e = RootEntry \/ Lister(e) \in seen
    /\ \A d \in seen :
          (d.type = "dir" /\ d # Lister(e)
             /\ ~IsProperPrefix(d.path, e.path))
          => Below(d, tree) \subseteq seen

----------------------------------------------------------------------------
(* The collaborators of the date resolver *)

DMeta == [y |-> 2019, m |-> 3, d |-> 4, h |-> 5, mi |-> 6, s |-> 7]
DMtime == [y |-> 2020, m |-> 5, d |-> 1, h |-> 10, mi |-> 20, s |-> 30]

Answer(ok, dt, err) == [ok |-> ok, dt |-> dt, err |-> err]

\* photo.rs exif_capture_datetime: Err when the file cannot be opened
\* (line 18); unreadable or missing EXIF data is Ok(None) (lines 21, 38)
exif_capture_datetime ==
    { Answer(TRUE, Some(DMeta), ""), Answer(TRUE, None, ""), Answer(FALSE, None, "open") }

\* video.rs ffprobe_creation_time: Err when ffprobe cannot be spawned (line
\* 12) or prints no valid JSON (line 18); Ok(None) on a non-zero exit or when
\* there is no creation_time that parses (lines 14-16, 25-29)
ffprobe_creation_time ==
    { Answer(TRUE, Some(DMeta), ""), Answer(TRUE, None, ""),
      Answer(FALSE, None, "spawn"), Answer(FALSE, None, "json") }

\* time.rs file_mtime: None when the metadata or its mtime cannot be read
file_mtime == { Some(DMtime), None }

\* stands for the answer of a collaborator that is not called for this file
NotAsked == Answer(TRUE, None, "")

Dated(ok, dt, source, err) == [ok |-> ok, dt |-> dt, source |-> source, err |-> err]

\* time.rs best_datetime_for_file, given what the collaborators answer
best_datetime_for_file(p, exif, probe, mtime) ==
    IF classify(p) = "Photo" THEN
        IF is_jpeg(p) /\ ~exif.ok THEN Dated(FALSE, None, "None", exif.err)
        ELSE IF is_jpeg(p) /\ IsSome(exif.dt) THEN Dated(TRUE, exif.dt, "Exif", "")
        ELSE IF IsSome(mtime) THEN Dated(TRUE, mtime, "Mtime", "")
        ELSE Dated(TRUE, None, "None", "")
    ELSE IF classify(p) = "Video" THEN
        IF ~probe.ok THEN Dated(FALSE, None, "None", probe.err)
        ELSE IF IsSome(probe.dt) THEN Dated(TRUE, probe.dt, "Ffprobe", "")
        ELSE IF IsSome(mtime) THEN Dated(TRUE, mtime, "Mtime", "")
        ELSE Dated(TRUE, None, "None", "")
    ELSE Dated(TRUE, None, "None", "")

\* time.rs best_datetime_for_dvd
best_datetime_for_dvd(mtime) ==
    IF IsSome(mtime) THEN Dated(TRUE, mtime, "Mtime", "") ELSE Dated(TRUE, None, "None", "")

----------------------------------------------------------------------------
(* plan.rs: the plan builder *)

NewPlanSummary ==
    [planned |-> 0, photos |-> 0, videos |-> 0, dvds |-> 0, missing_date |-> 0,
     need_convert_video |-> 0, need_convert_dvd |-> 0,
     duplicate_photos |-> 0, duplicate_videos |-> 0]

PlannedItem(kind, action, src, dst, dated) ==
    [kind |-> kind, action |-> action, src |-> PathStr(src), dst |-> PathStr(dst),
     best_dt |-> IF IsSome(dated.dt) THEN Some(format_dt(Unwrap(dated.dt))) ELSE None,
     date_source |-> dated.source, size_bytes |-> None,
     content_hash |-> None, duplicate_of |-> None]

MissingDate(ps, dated) == IF IsNone(dated.dt) THEN Bump(ps, "missing_date") ELSE ps

\* the loop body of build_plan on an Err the walk yields (lines 193-196)
WalkError ==
    /\ ppc = "walk"
    /\ \E e \in tree : WalkNext(e) /\ e.type = "error" /\ seen' = seen \cup {e}
    /\ UNCHANGED <<tree, ppc, perror, planned, psummary, dvd_roots, env, avars, dvars, rvars>>

\* ... on a directory (lines 200-205)
WalkDirectory ==
    /\ ppc = "walk"
    /\ \E e \in tree :
         /\ WalkNext(e) /\ e.type = "dir"
         /\ seen' = seen \cup {e}
         /\ dvd_roots' = IF IsSome(DvdRootOf[e])
                         THEN dvd_roots \cup {Unwrap(DvdRootOf[e])}
                         ELSE dvd_roots
    /\ UNCHANGED <<tree, ppc, perror, planned, psummary, env, avars, dvars, rvars>>

\* ... on what is neither a directory nor a file (lines 207-209)
WalkOther ==
    /\ ppc = "walk"
    /\ \E e \in tree : WalkNext(e) /\ e.type = "other" /\ seen' = seen \cup {e}
    /\ UNCHANGED <<tree, ppc, perror, planned, psummary, dvd_roots, env, avars, dvars, rvars>>

\* ... on a file inside a VIDEO_TS directory (lines 211-213)
WalkInsideVideoTs ==
    /\ ppc = "walk"
    /\ \E e \in tree :
         /\ WalkNext(e) /\ e.type = "file"
         /\ InsideVideoTs[e]
         /\ seen' = seen \cup {e}
    /\ UNCHANGED <<tree, ppc, perror, planned, psummary, dvd_roots, env, avars, dvars, rvars>>

\* ... on a file that is neither a photo nor a video (lines 215, 267)
WalkIgnored ==
    /\ ppc = "walk"
    /\ \E e \in tree :
         /\ WalkNext(e) /\ e.type = "file"
         /\ ~InsideVideoTs[e]
         /\ KindOfEntry[e] \notin {"Photo", "Video"}
         /\ seen' = seen \cup {e}
    /\ UNCHANGED <<tree, ppc, perror, planned, psummary, dvd_roots, env, avars, dvars, rvars>>

\* ... on a photo (lines 216-238)
WalkPhoto ==
    /\ ppc = "walk"
    /\ \E e \in tree :
         /\ WalkNext(e) /\ e.type = "file"
         /\ ~InsideVideoTs[e]
         /\ KindOfEntry[e] = "Photo"
         /\ seen' = seen \cup {e}
         /\ \E exif \in exif_capture_datetime, mtime \in file_mtime :
              LET dated == best_datetime_for_file(e.path, exif, NotAsked, mtime) IN
              IF ~dated.ok
              THEN /\ ppc' = "Err" /\ perror' = dated.err
                   /\ psummary' = Bump(psummary, "photos")
                   /\ UNCHANGED planned
              ELSE /\ UNCHANGED <<ppc, perror>>
                   /\ psummary' = Bump(MissingDate(Bump(psummary, "photos"), dated), "planned")
                   /\ planned' = Append(planned,
                         PlannedItem("Photo", "Copy", e.path,
                                     plan_dst(OUT, "Photo", e.path, dated.dt), dated))
    /\ UNCHANGED <<tree, dvd_roots, env, avars, dvars, rvars>>

\* ... on a video (lines 239-266)
WalkVideo ==
    /\ ppc = "walk"
    /\ \E e \in tree :
         /\ WalkNext(e) /\ e.type = "file"
         /\ ~InsideVideoTs[e]
         /\ KindOfEntry[e] = "Video"
         /\ seen' = seen \cup {e}
         /\ \E probe \in ffprobe_creation_time, mtime \in file_mtime :
              LET dated == best_datetime_for_file(e.path, NotAsked, probe, mtime)
                  action == action_for_video(e.path)
                  counted == IF action = "ConvertVideo"
                             THEN Bump(MissingDate(Bump(psummary, "videos"), dated),
                                       "need_convert_video")
                             ELSE MissingDate(Bump(psummary, "videos"), dated)
              IN
              IF ~dated.ok
              THEN /\ ppc' = "Err" /\ perror' = dated.err
                   /\ psummary' = Bump(psummary, "videos")
                   /\ UNCHANGED planned
              ELSE /\ UNCHANGED <<ppc, perror>>
                   /\ psummary' = Bump(counted, "planned")
                   /\ planned' = Append(planned,
                         PlannedItem("Video", action, e.path,
                                     plan_dst(OUT, "Video", e.path, dated.dt), dated))
    /\ UNCHANGED <<tree, dvd_roots, env, avars, dvars, rvars>>

----------------------------------------------------------------------------
(* plan.rs: duplicate marking *)

\* the bytes a source file can hold
Contents == { <<1>>, <<2>> }

\* the digest of a file's bytes (no two contents of the model collide)
Hash(c) == <<104>> \o c

Participates(item) == item.kind \in {"Photo", "Video"}

\* lines 132-140: the paths handed to the duplicate detector
RECURSIVE CollectPaths(_)
CollectPaths(items) ==
    IF Len(items) = 0 THEN <<>>
    ELSE IF Participates(items[1])
         THEN <<PathFrom(items[1].src)>> \o CollectPaths(Tail(items))
         ELSE CollectPaths(Tail(items))

RECURSIVE Members(_, _, _)
Members(paths, content, c) ==
    IF Len(paths) = 0 THEN <<>>
    ELSE IF content[PathStr(paths[1])] = c
         THEN <<paths[1]>> \o Members(Tail(paths), content, c)
         ELSE Members(Tail(paths), content, c)

\* deduplicate::find_exact_duplicates: every path is hashed in full and the
\* paths with the same hash form one group, keyed by that hash
find_exact_duplicates(paths, content) ==
    { [h |-> Hash(c), group |-> Members(paths, content, c)] :
        c \in { content[PathStr(paths[k])] : k \in 1..Len(paths) } }

\* Vec<PathBuf>::sort: ascending in the order of Path
RECURSIVE InsertPath(_, _)
InsertPath(p, sorted) ==
    IF Len(sorted) = 0 THEN <<p>>
    ELSE IF PathLess(p, sorted[1]) THEN <<p>> \o sorted
    ELSE <<sorted[1]>> \o InsertPath(p, Tail(sorted))

RECURSIVE SortPaths(_)
SortPaths(group) ==
    IF Len(group) = 0 THEN <<>> ELSE InsertPath(group[1], SortPaths(Tail(group)))

\* line 148: group.sort()
SortedGroup(group) == SortPaths(group)

\* a slip: the canonical member is not skipped
duplicate_of_map_AllMembers(groups) ==
    UNION { LET sorted == SortedGroup(g.group)
                canonical == PathStr(sorted[1])
            IN { <<PathStr(sorted[k]), canonical>> : k \in 1..Len(sorted) } : g \in groups }

\* lines 149, 152-156: every member after the first of the sorted group is a
\* duplicate of the first
duplicate_of_map(groups) ==
    UNION { LET sorted == SortedGroup(g.group)
                canonical == PathStr(sorted[1])
            IN { <<PathStr(sorted[k]), canonical>> : k \in 2..Len(sorted) } : g \in groups }

\* a slip: the hash is recorded for the duplicates only
hash_of_map_DuplicatesOnly(groups) ==
    UNION { LET sorted == SortedGroup(g.group)
            IN { <<PathStr(sorted[k]), g.h>> : k \in 2..Len(sorted) } : g \in groups }

\* lines 150, 157: the hash of every member of every group
hash_of_map(groups) ==
    UNION { LET sorted == SortedGroup(g.group)
            IN { <<PathStr(sorted[k]), g.h>> : k \in 1..Len(sorted) } : g \in groups }

\* HashMap::get
Get(map, key) ==
    IF \E pr \in map : pr[1] = key
    THEN Some((CHOOSE pr \in map : pr[1] = key)[2])
    ELSE None

\* line 167: std::fs::metadata(&p).ok().map(|m| m.len())
metadata_len(c, ok) == IF ok THEN Some(Len(c)) ELSE None

\* lines 161-181: the back-annotation of one item. The detector has just read
\* every participating file in full, and the input tree does not change while
\* the plan is built, so the metadata of the file can be read.
Annotated(item, hash_of, duplicate_of, content) ==
    IF ~Participates(item) THEN item
    ELSE [item EXCEPT
            !.size_bytes = metadata_len(content[item.src], TRUE),
            !.content_hash = Get(hash_of, item.src),
            !.duplicate_of = Get(duplicate_of, item.src)]

CountKind(items, kind) ==
    Cardinality({ k \in 1..Len(items) : items[k].kind = kind /\ IsSome(items[k].duplicate_of) })

\* build_plan line 271: mark_input_duplicates, once the walk is over. When a
\* file cannot be read for hashing the detector's error is returned (`?`);
\* the JPEGs were opened by the EXIF reader during the walk.
MarkInputDuplicates ==
    /\ ppc = "walk" /\ seen = tree
    /\ \E paths \in {CollectPaths(planned)} :
       \E srcs \in {{ PathStr(paths[k]) : k \in 1..Len(paths) }} :
       \E content \in [srcs -> Contents], readable \in BOOLEAN :
            /\ readable \/ \E k \in 1..Len(paths) : ~is_jpeg(paths[k])
            /\ IF ~readable
               THEN /\ ppc' = "Err" /\ perror' = "hash"
                    /\ UNCHANGED <<planned, psummary, env>>
               ELSE \E groups \in {find_exact_duplicates(paths, content)} :
                    \E hash_of \in {hash_of_map(groups)} :
                    \E duplicate_of \in {duplicate_of_map(groups)} :
                    \E marked \in {[k \in 1..Len(planned) |->
                                     Annotated(planned[k], hash_of, duplicate_of, content)]} :
                       /\ planned' = marked
                       /\ psummary' = [psummary EXCEPT
                             !.duplicate_photos = @ + CountKind(marked, "Photo"),
                             !.duplicate_videos = @ + CountKind(marked, "Video")]
                       /\ env' = content
                       /\ ppc' = "dvds" /\ UNCHANGED perror
    /\ UNCHANGED <<tree, seen, dvd_roots, avars, dvars, rvars>>

\* dvd::dvd_main_title_vobs: the listing of the main title's VOB files
\* succeeds or fails
dvd_main_title_vobs == { TRUE, FALSE }

\* build_plan lines 273-298: one turn of the loop over the DVD roots
PlanDvd ==
    /\ ppc = "dvds"
    /\ \E r \in dvd_roots, mtime \in file_mtime, listed \in dvd_main_title_vobs :
         LET dated == best_datetime_for_dvd(mtime)
             counted == MissingDate(Bump(psummary, "dvds"), dated)
         IN /\ dvd_roots' = dvd_roots \ {r}
            /\ IF ~listed
               THEN /\ ppc' = "Err" /\ perror' = "vobs"
                    /\ psummary' = counted
                    /\ UNCHANGED planned
               ELSE /\ UNCHANGED <<ppc, perror>>
                    /\ psummary' = Bump(Bump(counted, "need_convert_dvd"), "planned")
                    /\ planned' = Append(planned,
                          PlannedItem("Dvd", "ConvertDvd", r,
                                      plan_dst(OUT, "Dvd", r, dated.dt), dated))
    /\ UNCHANGED <<tree, seen, env, avars, dvars, rvars>>

\* build_plan line 300: Ok((planned, summary))
PlanReturn ==
    /\ ppc = "dvds" /\ dvd_roots = {}
    /\ ppc' = "Ok"
    /\ UNCHANGED <<tree, seen, perror, planned, psummary, dvd_roots, env, avars, dvars, rvars>>

ApplyIdle ==
    /\ manifest = <<>> /\ fs = {} /\ apc = "idle" /\ error = "" /\ idx = 0 /\ run = "none"
    /\ summary = NewApplySummary /\ prev = None
    /\ ok_log = <<>> /\ fail_log = <<>> /\ dup_log = <<>> /\ calls = <<>>

InitPlan ==
    /\ tree \in Trees
    /\ seen = {} /\ ppc = "walk" /\ perror = "" /\ planned = <<>>
    /\ psummary = NewPlanSummary /\ dvd_roots = {} /\ env = <<>>
    /\ ApplyIdle /\ DstIdle /\ ReadIdle

NextPlan ==
    \/ WalkError
    \/ WalkDirectory
    \/ WalkOther
    \/ WalkInsideVideoTs
    \/ WalkIgnored
    \/ WalkPhoto
    \/ WalkVideo
    \/ MarkInputDuplicates
    \/ PlanDvd
    \/ PlanReturn

SpecPlan == InitPlan /\ [][NextPlan]_vars

----------------------------------------------------------------------------
(* plan.rs: plan_dst on its own, over a range of arguments *)

Kinds == {"Photo", "Video", "Dvd"}

DEarly == [y |-> 987, m |-> 6, d |-> 15, h |-> 0, mi |-> 0, s |-> 0]
DLate == [y |-> 2024, m |-> 12, d |-> 31, h |-> 23, mi |-> 59, s |-> 59]

DstRoots == { OUT, <<>>, <<S_out, N_a>> }
DstSrcs == { <<S_in, N_a_jpg>>, <<S_in, N_a, N_v_AVI>>, <<S_in, N_m>>, <<>> }
DstDates == { None, Some(DMeta), Some(DMtime), Some(DEarly), Some(DLate) }

DstArgs(out_root, kind, src, best_dt) ==
    [out_root |-> out_root, kind |-> kind, src |-> src, best_dt |-> best_dt]

\* one call of plan_dst
PlanDst ==
    /\ dst_in # None /\ dst_out = None
    /\ dst_out' = Some(plan_dst(Unwrap(dst_in).out_root, Unwrap(dst_in).kind,
                                Unwrap(dst_in).src, Unwrap(dst_in).best_dt))
    /\ UNCHANGED <<dst_in, avars, pvars, rvars>>

InitDst ==
    /\ dst_in \in { Some(DstArgs(r, k, p, dt)) :
                      r \in DstRoots, k \in Kinds, p \in DstSrcs, dt \in DstDates }
    /\ dst_out = None
    /\ ApplyIdle /\ PlanIdle /\ ReadIdle

NextDst == PlanDst

SpecDst == InitDst /\ [][NextDst]_vars

----------------------------------------------------------------------------
(* apply.rs: reading the manifest *)

MaxLines == 3       \* longest manifest file read

\* What a line of the file is made of: JSON whitespace (space, tab), other
\* Unicode whitespace (form feed), the JSON object of a PlannedItem, a JSON
\* value that is no PlannedItem, text that is no JSON, bytes that are no UTF-8
Sym(t, item) == [t |-> t, item |-> item]
WS == Sym("ws", None)
FF == Sym("ff", None)
Obj(item) == Sym("obj", Some(item))
Value == Sym("value", None)
Junk == Sym("junk", None)
Bytes == Sym("bytes", None)

ItemA == Item("Photo", "Copy", SrcAt(1), <<120>>, None)
ItemB == Item("Video", "ConvertVideo", SrcAt(2), <<121>>, Some(SrcAt(1)))

ManifestLines ==
    { <<>>, <<WS, FF>>,
      <<Obj(ItemA)>>, <<WS, Obj(ItemA), WS>>, <<Obj(ItemB)>>,
      <<FF, Obj(ItemB)>>, <<Junk>>, <<Obj(ItemA), Junk>>, <<Value>>,
      <<Bytes>> }

RECURSIVE ManifestFiles(_)
ManifestFiles(n) ==
    IF n = 0 THEN {<<>>}
    ELSE LET shorter == ManifestFiles(n - 1)
         IN shorter \cup { Append(f, l) : f \in {g \in shorter : Len(g) = n - 1},
                                          l \in ManifestLines }

\* BufRead::lines yields Err for a line that is not valid UTF-8
is_utf8(line) == \A k \in 1..Len(line) : line[k].t # "bytes"

\* the symbols of a line with the leading and trailing ones of the set cut off
RECURSIVE StripStart(_, _)
StripStart(line, ts) ==
    IF Len(line) > 0 /\ line[1].t \in ts THEN StripStart(Tail(line), ts) ELSE line

RECURSIVE StripEnd(_, _)
StripEnd(line, ts) ==
    IF Len(line) > 0 /\ line[Len(line)].t \in ts
    THEN StripEnd(SubSeq(line, 1, Len(line) - 1), ts) ELSE line

\* str::trim: Unicode whitespace is cut off at both ends
trim(line) == StripEnd(StripStart(line, {"ws", "ff"}), {"ws", "ff"})

\* serde_json::from_str::<PlannedItem>: JSON whitespace, one value that is a
\* PlannedItem, JSON whitespace, end of input
from_str(line) ==
    LET body == StripEnd(StripStart(line, {"ws"}), {"ws"})
    IN IF Len(body) = 1 /\ body[1].t = "obj"
       THEN [ok |-> TRUE, item |-> body[1].item]
       ELSE [ok |-> FALSE, item |-> None]

ReadError(kind, line) == [kind |-> kind, line |-> line]

\* line 47: File::open
ReadOpen ==
    /\ rpc = "idle"
    /\ \E opened \in BOOLEAN :
         /\ rpc' = IF opened THEN "lines" ELSE "Err"
         /\ rerror' = IF opened THEN NoReadError ELSE ReadError("open", 0)
    /\ UNCHANGED <<file, rpos, read_items, avars, pvars, dvars>>

\* line 52: `line?`, on a line that is not UTF-8 or when the read fails
ReadLineError ==
    /\ rpc = "lines" /\ rpos < Len(file)
    /\ \E failed \in BOOLEAN :
         /\ failed \/ ~is_utf8(file[rpos + 1])
         /\ rerror' = ReadError(IF is_utf8(file[rpos + 1]) THEN "io" ELSE "utf8", 0)
    /\ rpc' = "Err" /\ read_items' = <<>>
    /\ UNCHANGED <<file, rpos, avars, pvars, dvars>>

\* lines 53-55: a blank line is skipped
ReadBlank ==
    /\ rpc = "lines" /\ rpos < Len(file)
    /\ is_utf8(file[rpos + 1])
    /\ Len(trim(file[rpos + 1])) = 0
    /\ rpos' = rpos + 1
    /\ UNCHANGED <<file, rpc, read_items, rerror, avars, pvars, dvars>>

\* lines 56-58: the line parses and its item is pushed
ReadItem ==
    /\ rpc = "lines" /\ rpos < Len(file)
    /\ is_utf8(file[rpos + 1])
    /\ Len(trim(file[rpos + 1])) # 0
    /\ from_str(file[rpos + 1]).ok
    /\ read_items' = Append(read_items, Unwrap(from_str(file[rpos + 1]).item))
    /\ rpos' = rpos + 1
    /\ UNCHANGED <<file, rpc, rerror, avars, pvars, dvars>>

\* a slip: a line that does not parse is passed over
ReadParseError_Skip ==
    /\ rpc = "lines" /\ rpos < Len(file)
    /\ is_utf8(file[rpos + 1])
    /\ Len(trim(file[rpos + 1])) # 0
    /\ ~from_str(file[rpos + 1]).ok
    /\ rpos' = rpos + 1
    /\ UNCHANGED <<file, rpc, read_items, rerror, avars, pvars, dvars>>

\* lines 56-57: the line does not parse: Err "parse json on line {i + 1}"
ReadParseError ==
    /\ rpc = "lines" /\ rpos < Len(file)
    /\ is_utf8(file[rpos + 1])
    /\ Len(trim(file[rpos + 1])) # 0
    /\ ~from_str(file[rpos + 1]).ok
    /\ rpc' = "Err" /\ rerror' = ReadError("parse", rpos + 1)
    /\ read_items' = <<>>
    /\ UNCHANGED <<file, rpos, avars, pvars, dvars>>

\* line 61: Ok(items)
ReadReturn ==
    /\ rpc = "lines" /\ rpos = Len(file)
    /\ rpc' = "Ok"
    /\ UNCHANGED <<file, rpos, read_items, rerror, avars, pvars, dvars>>

\* the `apply` subcommand: the items read are handed to apply_items; an Err
\* of read_manifest_jsonl ends the run before anything is applied
CliApply ==
    /\ rpc = "Ok"
    /\ rpc' = "applying"
    /\ manifest' = read_items
    /\ UNCHANGED <<fs, apc, error, idx, run, summary, prev, ok_log, fail_log, dup_log,
                   calls, file, rpos, read_items, rerror, pvars, dvars>>

CliApplyItems == rpc = "applying" /\ run = "none" /\ ApplyOpen

InitRead ==
    /\ file \in ManifestFiles(MaxLines)
    /\ rpc = "idle" /\ rpos = 0 /\ read_items = <<>> /\ rerror = NoReadError
    /\ manifest = <<>> /\ fs \in { {}, {OldFile(<<120>>)} }
    /\ apc = "idle" /\ error = "" /\ idx = 0 /\ run = "none"
    /\ summary = NewApplySummary /\ prev = None
    /\ ok_log = <<>> /\ fail_log = <<>> /\ dup_log = <<>> /\ calls = <<>>
    /\ PlanIdle /\ DstIdle

NextRead ==
    \/ ReadOpen
    \/ ReadLineError
    \/ ReadBlank
    \/ ReadItem
    \/ ReadParseError
    \/ ReadReturn
    \/ CliApply
    \/ CliApplyItems
    \/ ApplySkipDuplicate
    \/ ApplySkipExisting
    \/ ApplyDispatch
    \/ ApplyReturn

SpecRead == InitRead /\ [][NextRead]_vars

----------------------------------------------------------------------------
(* The pipeline: plan, manifest.jsonl, apply, on an empty output tree *)

\* the `plan` subcommand: the plan build_plan returned is written to
\* manifest.jsonl, one JSON object per line, in the order of the plan
CliPlan ==
    /\ ppc = "Ok" /\ rpc = "unwritten"
    /\ file' = [k \in 1..Len(planned) |-> <<Obj(planned[k])>>]
    /\ rpc' = "idle"
    /\ UNCHANGED <<rpos, read_items, rerror, avars, pvars, dvars>>

InitPipeline ==
    /\ tree \in PipelineTrees
    /\ seen = {} /\ ppc = "walk" /\ perror = "" /\ planned = <<>>
    /\ psummary = NewPlanSummary /\ dvd_roots = {} /\ env = <<>>
    /\ file = <<>> /\ rpc = "unwritten" /\ rpos = 0 /\ read_items = <<>>
    /\ rerror = NoReadError
    /\ ApplyIdle /\ DstIdle

NextPipeline ==
    \/ WalkDirectory
    \/ WalkPhoto
    \/ WalkVideo
    \/ MarkInputDuplicates
    \/ PlanReturn
    \/ CliPlan
    \/ ReadOpen
    \/ ReadLineError
    \/ ReadItem
    \/ ReadReturn
    \/ CliApply
    \/ CliApplyItems
    \/ ApplySkipDuplicate
    \/ ApplySkipExisting
    \/ ApplyDispatch
    \/ ApplyReturn

SpecPipeline == InitPipeline /\ [][NextPipeline]_vars

----------------------------------------------------------------------------
(* Claims about the apply executor, checked under SpecApply *)

HasFile(d) == \E f \in fs : f.path = d
OnlyBumped(s, t, field) == t = [s EXCEPT !.total = @ + 1, ![field] = @ + 1]

\* a turn of the loop on an item whose duplicate_of is set
DupTurn ==
    /\ apc = "loop" /\ idx < Len(manifest)
    /\ manifest[idx + 1].duplicate_of # None
    /\ idx' = idx + 1

DupTurnFrame ==
    /\ OnlyBumped(summary, summary', "skipped_dupliace")
    /\ fs' = fs /\ calls' = calls /\ ok_log' = ok_log /\ fail_log' = fail_log

DupLineLogged ==
    /\ dup_log' = Append(dup_log, [tag |-> "SKIP_DUP", src |-> manifest[idx + 1].src,
                                   dup_of |-> manifest[idx + 1].duplicate_of[1]])
    /\ apc' = "loop"

\* C1 as stated: an item with duplicate_of set is counted as skipped-duplicate,
\* one SKIP_DUP line is logged for it, nothing is dispatched, the output tree
\* and the OK and FAIL logs stay as they are, whatever its action and whether
\* or not its destination exists.
C1_AsStated == [][DupTurn => DupTurnFrame /\ DupLineLogged]_vars

\* C1 amended: an item with duplicate_of set is counted as skipped-duplicate,
\* nothing is dispatched for it and the output tree and the OK and FAIL logs
\* stay as they are; one SKIP_DUP line is logged for it, unless the write to
\* the duplicates log fails, and then apply_items returns that error.
C1_DuplicateNeverExecuted ==
    [][DupTurn =>
        /\ DupTurnFrame
        /\ \/ DupLineLogged
           \/ dup_log' = dup_log /\ apc' = "Err" /\ error' = "write log"]_vars

\* a duplicate that would have been transcoded to a destination that does not
\* exist has been passed over and logged
C1_Witness ==
    /\ apc = "loop" /\ idx >= 1
    /\ manifest[idx].duplicate_of # None
    /\ manifest[idx].action = "ConvertVideo"
    /\ ~HasFile(manifest[idx].dst)
    /\ Len(dup_log) >= 1
    /\ dup_log[Len(dup_log)].src = manifest[idx].src
    /\ summary.skipped_dupliace >= 1

\* a turn of the loop on a non-duplicate item whose destination exists
ExistingTurn ==
    /\ apc = "loop" /\ idx < Len(manifest)
    /\ manifest[idx + 1].duplicate_of = None
    /\ HasFile(manifest[idx + 1].dst)
    /\ idx' = idx + 1

\* C2: a non-duplicate item whose destination exists when it is reached is
\* counted as skipped-existing and nothing is dispatched for it; and no step
\* of apply removes or changes a file that is in the output tree.
C2_ExistingNeverOverwritten ==
    [][/\ ExistingTurn =>
            /\ OnlyBumped(summary, summary', "skipped_existing")
            /\ calls' = calls /\ apc' = "loop"
            /\ ok_log' = ok_log /\ fail_log' = fail_log /\ dup_log' = dup_log
       /\ \A f \in fs : f \in fs']_vars

\* an item whose destination was there before apply started has been skipped
C2_Witness ==
    /\ apc = "loop" /\ idx >= 1
    /\ manifest[idx].duplicate_of = None
    /\ summary.skipped_existing >= 1
    /\ \E f \in fs : f.path = manifest[idx].dst /\ f.content.made = "old"

NoneDispatched ==
    /\ summary.copied = 0 /\ summary.converted_video = 0 /\ summary.converted_dvd = 0

SecondRunDone == run = "second" /\ apc = "Ok" /\ IsSome(prev) /\ prev[1].result = "Ok"

NumDuplicates == Cardinality({k \in 1..Len(manifest) : manifest[k].duplicate_of # None})

\* C3 as stated: the second of two apply runs over the same manifest copies
\* and converts nothing, and every item is skipped-existing in it.
C3_AsStated ==
    SecondRunDone => NoneDispatched /\ summary.skipped_existing = summary.total

\* C3 amended: when the first run returned Ok with failed = 0, the second run
\* dispatches nothing (copied = converted_video = converted_dvd = failed = 0);
\* every item with duplicate_of = None is skipped-existing in it and every item
\* with duplicate_of set is skipped-duplicate again.
C3_RerunDispatchesNothing ==
    (run = "second" /\ IsSome(prev) /\ prev[1].result = "Ok" /\ prev[1].summary.failed = 0)
    => /\ NoneDispatched /\ summary.failed = 0 /\ calls = <<>>
       /\ apc = "Ok" => /\ summary.total = Len(manifest)
                        /\ summary.skipped_dupliace = NumDuplicates
                        /\ summary.skipped_existing = Len(manifest) - NumDuplicates

\* a second run has ended after a first run that copied two files
C3_Witness ==
    /\ SecondRunDone
    /\ prev[1].summary.failed = 0 /\ prev[1].summary.copied = 2
    /\ summary.skipped_existing = 2

\* a turn of the loop whose copy or transcode failed
FailedTurn ==
    /\ Len(calls') = Len(calls) + 1
    /\ ~calls'[Len(calls')].ok

FailedTurnCounted ==
    /\ OnlyBumped(summary, summary', "failed")
    /\ idx' = idx + 1
    /\ ok_log' = ok_log /\ dup_log' = dup_log

FailLineLogged ==
    /\ fail_log' = Append(fail_log,
          [tag |-> "FAIL", action |-> manifest[idx + 1].action, src |-> manifest[idx + 1].src,
           dst |-> manifest[idx + 1].dst, err |-> calls'[Len(calls')].err])
    /\ apc' = "loop"

ReturnsOkAtEnd == apc = "Ok" => idx = Len(manifest) /\ summary.total = Len(manifest)

\* C4 as stated: when the copy or transcode of an item fails, failed is
\* incremented, one FAIL line with the error text is appended, and the loop
\* goes on to the next item; apply_items returns Ok with total = number of items.
C4_AsStated == [][FailedTurn => FailedTurnCounted /\ FailLineLogged]_vars

\* C4 amended: when the copy or transcode of an item fails, failed is
\* incremented and one FAIL line with the error text is appended, and the loop
\* goes on to the next item, unless the write to the failure log itself fails,
\* and then apply_items returns that error; whenever apply_items returns Ok,
\* every item has been processed and total = number of items.
C4_FailureDoesNotAbort ==
    /\ [][FailedTurn =>
            /\ FailedTurnCounted
            /\ \/ FailLineLogged
               \/ fail_log' = fail_log /\ apc' = "Err" /\ error' = "write log"]_vars
    /\ []ReturnsOkAtEnd

\* the first item failed, the second was copied, and the run returned Ok
C4_Witness ==
    /\ apc = "Ok" /\ Len(manifest) = 2 /\ Len(calls) = 2
    /\ calls[1].at = 1 /\ ~calls[1].ok
    /\ calls[2].at = 2 /\ calls[2].ok
    /\ summary.failed = 1 /\ summary.total = 2
    /\ Len(fail_log) >= 1


----------------------------------------------------------------------------
(* Further claims about the apply executor, checked under SpecApply *)

\* a turn of the loop on the item at position idx + 1
ItemTurn == apc = "loop" /\ idx < Len(manifest) /\ idx' = idx + 1

FailedBefore(item) == \E k \in 1..Len(fail_log) : fail_log[k].src = item.src

CallFor(k) == \E c \in 1..Len(calls) : calls[c].at = k

\* C13: an item whose call failed leaving no destination file is not
\* remembered as done: whenever a run comes to a non-duplicate item whose
\* destination does not exist, it dispatches the item, also when a FAIL line
\* of an earlier run names the item
C13_FailedItemIsRetried ==
    [][ (/\ ItemTurn
         /\ IsNone(manifest[idx + 1].duplicate_of)
         /\ ~HasFile(manifest[idx + 1].dst))
        => /\ Len(calls') = Len(calls) + 1
           /\ calls'[Len(calls')].at = idx + 1
           /\ calls'[Len(calls')].src = manifest[idx + 1].src
           /\ summary'.skipped_existing = summary.skipped_existing ]_vars

C13_Witness ==
    /\ run = "second"
    /\ \E k \in 1..Len(manifest) :
         /\ FailedBefore(manifest[k])
         /\ \E c \in 1..Len(calls) : calls[c].at = k /\ calls[c].ok
         /\ \E f \in fs : f.path = manifest[k].dst /\ f.content.of = Some(manifest[k].src)

OutcomeCounters ==
    {"copied", "converted_video", "converted_dvd", "skipped_existing",
     "skipped_dupliace", "failed"}

Balanced(s) ==
    s.total = s.copied + s.converted_video + s.converted_dvd
              + s.skipped_existing + s.skipped_dupliace + s.failed

\* C14: the summary is balanced (total is the sum of the six outcome
\* counters) after every processed item; a turn of the loop adds one to total
\* and to exactly one outcome counter, nothing else changes the summary of a
\* run, and when apply_items returns Ok total is the number of manifest items
C14_SummaryAccounting ==
    [][ /\ Balanced(summary) /\ Balanced(summary')
        /\ ItemTurn =>
             \E f \in OutcomeCounters :
               summary' = [summary EXCEPT !.total = @ + 1, ![f] = @ + 1]
        /\ (~ItemTurn /\ run' = run) => summary' = summary
        /\ apc' = "Ok" => summary'.total = Len(manifest) ]_vars

C14_Witness ==
    /\ apc = "Ok" /\ Len(manifest) = 2
    /\ summary.total = 2 /\ summary.failed = 1 /\ summary.skipped_existing = 1

\* two items that are no duplicates and share a destination, i before j
Collide(i, j) ==
    /\ i < j /\ j <= Len(manifest)
    /\ IsNone(manifest[i].duplicate_of) /\ IsNone(manifest[j].duplicate_of)
    /\ manifest[i].dst = manifest[j].dst

\* the destination of item i holds what a successful call for item i made
Succeeded(i) ==
    \E f \in fs : /\ f.path = manifest[i].dst
                  /\ f.content = [made |-> manifest[i].action, of |-> Some(manifest[i].src)]

\* C15 as stated: of two colliding items apply executes only the first
C15_AsStated ==
    \A c \in 1..Len(calls) : ~\E i \in 1..Len(manifest) : Collide(i, calls[c].at)

\* C15: of two colliding items, once the first one has succeeded its file
\* stays, and a turn on the later one counts it as skipped-existing, writes no
\* log line, dispatches nothing and leaves the output tree as it is
C15_LaterCollidingItemSkipped ==
    [][ \A i, j \in 1..Len(manifest) :
          (Collide(i, j) /\ Succeeded(i)) =>
             /\ Succeeded(i)'
             /\ (ItemTurn /\ idx + 1 = j) =>
                  /\ OnlyBumped(summary, summary', "skipped_existing")
                  /\ UNCHANGED <<fs, calls, ok_log, fail_log, dup_log, apc>> ]_vars

C15_Witness ==
    /\ apc = "Ok" /\ Len(manifest) = 2
    /\ Collide(1, 2) /\ Succeeded(1)
    /\ CallFor(1) /\ ~CallFor(2)
    /\ summary.skipped_existing = 1 /\ ok_log # <<>>

----------------------------------------------------------------------------
(* Claims about the plan builder, checked under SpecPlan *)

\* mark_input_duplicates has returned Ok
Marked == ppc \in {"dvds", "Ok"} \/ (ppc = "Err" /\ perror = "vobs")

Participating == { k \in 1..Len(planned) : Participates(planned[k]) }

\* the participating items whose files hold the same bytes as item i's
GroupOf(i) == { j \in Participating : env[planned[j].src] = env[planned[i].src] }

\* the member of a group whose source path string is the smallest
LeastByString(g) ==
    CHOOSE j \in g : \A k \in g \ {j} : StrLess(planned[j].src, planned[k].src)

\* C5: after mark_input_duplicates the canonical member of every group of
\* Photo/Video items with identical content is the lexicographically smallest
\* source path of the group; every other member has duplicate_of equal to
\* it, and the canonical item itself has duplicate_of None
C5_AsStated ==
    Marked =>
      \A i \in Participating :
        LET least == LeastByString(GroupOf(i)) IN
        planned[i].duplicate_of =
            IF i = least THEN None ELSE Some(planned[least].src)

IsDuplicateItem(k) == IsSome(planned[k].duplicate_of)
IsCanonicalItem(k) ==
    \E j \in Participating : planned[j].duplicate_of = Some(planned[k].src)
IsUniqueItem(k) == GroupOf(k) = {k}

DateErrors == {"open", "spawn", "json"}

\* C7: a failure of the EXIF reader or of ffprobe for a file (the file cannot
\* be opened, ffprobe cannot be spawned, its output is not JSON) is never
\* fatal: build_plan does not return that error
C7_AsStated == ~(ppc = "Err" /\ perror \in DateErrors)

\* the spellings of the DVD folder name among the entries of the model
VideoTsNames == { S_VIDEO_TS, N_video_ts }

\* the directories of the tree that hold a VIDEO_TS subdirectory
DvdParents ==
    { SubSeq(e.path, 1, Len(e.path) - 1) :
        e \in { x \in tree : x.type = "dir" /\ x.path[Len(x.path)] \in VideoTsNames } }

ItemsOf(src, kind) ==
    { k \in 1..Len(planned) : planned[k].src = src /\ planned[k].kind = kind }

HasVideoTsComponent(src) ==
    \E e \in tree :
      /\ PathStr(e.path) = src
      /\ \E k \in 1..Len(e.path) - 1 : e.path[k] \in VideoTsNames

\* C8: a plan that build_plan returns holds exactly one Dvd item per
\* directory with a VIDEO_TS subdirectory, rooted at that directory, and no
\* item whose source is a file inside a VIDEO_TS directory
C8_OneDvdPerVideoTsParent ==
    ppc = "Ok" =>
      /\ \A r \in DvdParents : Cardinality(ItemsOf(PathStr(r), "Dvd")) = 1
      /\ \A k \in 1..Len(planned) :
           planned[k].kind = "Dvd" => \E r \in DvdParents : planned[k].src = PathStr(r)
      /\ \A k \in 1..Len(planned) :
           planned[k].kind # "Dvd" => ~HasVideoTsComponent(planned[k].src)

C8_Witness ==
    /\ ppc = "Ok"
    /\ \E k \in 1..Len(planned) : planned[k].kind = "Dvd"
    /\ \E e \in tree :
         /\ e.type = "file" /\ HasVideoTsComponent(PathStr(e.path))
         /\ \A k \in 1..Len(planned) : planned[k].src # PathStr(e.path)

\* what follows the last '.' of a string
ExtOf(str) == SubSeq(str, LastDot(str, Len(str)) + 1, Len(str))

Lowered(str) == [k \in 1..Len(str) |-> IF str[k] \in 65..90 THEN str[k] + 32 ELSE str[k]]

ActionFits(item) ==
    CASE item.kind = "Photo" -> item.action = "Copy"
      [] item.kind = "Video" ->
           item.action = IF Lowered(ExtOf(item.src)) = S_avi THEN "ConvertVideo" ELSE "Copy"
      [] item.kind = "Dvd" -> item.action = "ConvertDvd"

\* C10 as stated: the action follows from kind and source extension, a photo
\* keeps its source extension, and every Video and Dvd destination ends in
\* .mp4
C10_AsStated ==
    \A k \in 1..Len(planned) :
      /\ ActionFits(planned[k])
      /\ ExtOf(planned[k].dst) =
           IF planned[k].kind = "Photo" THEN ExtOf(planned[k].src) ELSE S_mp4

\* C10: the action follows from kind and source extension (Photo -> Copy,
\* Video with extension avi in any case -> ConvertVideo, other Video -> Copy,
\* Dvd -> ConvertDvd), a photo's destination has the source extension in
\* lower case, and every Video and Dvd destination ends in .mp4
C10_ActionAndExtensionByKind ==
    \A k \in 1..Len(planned) :
      /\ ActionFits(planned[k])
      /\ ExtOf(planned[k].dst) =
           IF planned[k].kind = "Photo" THEN Lowered(ExtOf(planned[k].src)) ELSE S_mp4

C10_Witness ==
    /\ \E k \in 1..Len(planned) :
         /\ planned[k].kind = "Photo"
         /\ ExtOf(planned[k].src) # Lowered(ExtOf(planned[k].src))
         /\ ExtOf(planned[k].dst) = Lowered(ExtOf(planned[k].src))
    /\ \E k \in 1..Len(planned) :
         /\ planned[k].kind = "Video" /\ planned[k].action = "ConvertVideo"
         /\ ExtOf(planned[k].src) # S_avi

----------------------------------------------------------------------------
(* Claims about plan_dst, checked under SpecDst *)

IsDigits(str) == \A k \in 1..Len(str) : str[k] \in 48..57

RECURSIVE ParseNat(_)
ParseNat(str) ==
    IF Len(str) = 0 THEN 0
    ELSE 10 * ParseNat(SubSeq(str, 1, Len(str) - 1)) + (str[Len(str)] - 48)

FolderOf(kind) ==
    CASE kind = "Photo" -> S_Photos [] kind = "Video" -> S_Videos [] kind = "Dvd" -> S_DVDs

\* the three folders YYYY, YYYY-MM, YYYY-MM-DD of the date dt
IsDateFolders(y, ym, ymd, dt) ==
    /\ Len(y) = 4 /\ IsDigits(y) /\ ParseNat(y) = dt.y
    /\ Len(ym) = 7 /\ SubSeq(ym, 1, 4) = y /\ ym[5] = 45
    /\ IsDigits(SubSeq(ym, 6, 7)) /\ ParseNat(SubSeq(ym, 6, 7)) = dt.m
    /\ Len(ymd) = 10 /\ SubSeq(ymd, 1, 7) = ym /\ ymd[8] = 45
    /\ IsDigits(SubSeq(ymd, 9, 10)) /\ ParseNat(SubSeq(ymd, 9, 10)) = dt.d

\* C9: the directory of plan_dst's result is
\* out_root/{Photos|Videos|DVDs}/YYYY/YYYY-MM/YYYY-MM-DD of the one date when
\* the date is present, and exactly out_root/{Photos|Videos|DVDs}/UnknownDate
\* when it is absent
C9_DatedOrUnknownDate ==
    dst_out # None =>
      LET a == Unwrap(dst_in)
          dst == Unwrap(dst_out)
          n == Len(a.out_root)
      IN /\ SubSeq(dst, 1, n) = a.out_root
         /\ dst[n + 1] = FolderOf(a.kind)
         /\ IF IsNone(a.best_dt)
            THEN Len(dst) = n + 3 /\ dst[n + 2] = S_UnknownDate
            ELSE /\ Len(dst) = n + 5
                 /\ IsDateFolders(dst[n + 2], dst[n + 3], dst[n + 4], Unwrap(a.best_dt))

C9_Witness ==
    /\ dst_out # None
    /\ IsNone(Unwrap(dst_in).best_dt)
    /\ Unwrap(dst_in).kind = "Dvd"
    /\ Unwrap(dst_out) = <<S_out, N_a, S_DVDs, S_UnknownDate, N_m \o <<46>> \o S_mp4>>


----------------------------------------------------------------------------
(* Claims about read_manifest_jsonl, checked under SpecRead *)

\* what a line is, read off its symbols
LineClass(line) ==
    LET solid == SelectSeq(line, LAMBDA x : x.t # "ws") IN
    IF \E k \in 1..Len(line) : line[k].t = "bytes" THEN "unreadable"
    ELSE IF \A k \in 1..Len(line) : line[k].t \in {"ws", "ff"} THEN "blank"
    ELSE IF Len(solid) = 1 /\ solid[1].t = "obj" THEN "item"
    ELSE "corrupt"

BadLines == { k \in 1..Len(file) : LineClass(file[k]) \in {"corrupt", "unreadable"} }
HasBadLine == BadLines # {}
FirstBadLine == CHOOSE k \in BadLines : \A j \in BadLines : k <= j

\* the items of the lines that hold one, in file order
RECURSIVE ItemsOfLines(_)
ItemsOfLines(f) ==
    IF Len(f) = 0 THEN <<>>
    ELSE IF LineClass(f[1]) = "item"
         THEN <<SelectSeq(f[1], LAMBDA x : x.t = "obj")[1].item[1]>> \o ItemsOfLines(Tail(f))
         ELSE ItemsOfLines(Tail(f))

ReadFinished == rpc \in {"Ok", "Err", "applying"}

NothingApplied ==
    manifest = <<>> /\ apc = "idle" /\ calls = <<>> /\ summary = NewApplySummary

\* C11 as stated: blank lines are skipped and the other items returned in
\* file order; when a non-blank line does not parse (and the file could be
\* opened and read) the error names the 1-based number of that line, no items
\* are returned and nothing is applied
C11_AsStated ==
    /\ rpc \in {"Ok", "applying"} => read_items = ItemsOfLines(file)
    /\ (ReadFinished /\ HasBadLine /\ rerror.kind \notin {"open", "io"}) =>
         /\ rpc = "Err" /\ read_items = <<>>
         /\ rerror = ReadError("parse", FirstBadLine)
    /\ HasBadLine => NothingApplied

\* C11: blank lines are skipped and the other items returned in file order;
\* when the first line that is not a blank line or an item is UTF-8 text, the
\* error names its 1-based number, and when it is not UTF-8 the read error is
\* returned, which names no line; either way no items are returned and
\* nothing of the manifest is applied
C11_CorruptLineIsFatal ==
    /\ rpc \in {"Ok", "applying"} => (~HasBadLine /\ read_items = ItemsOfLines(file))
    /\ (ReadFinished /\ HasBadLine /\ rerror.kind \notin {"open", "io"}) =>
         /\ rpc = "Err" /\ read_items = <<>>
         /\ rerror = IF LineClass(file[FirstBadLine]) = "corrupt"
                     THEN ReadError("parse", FirstBadLine)
                     ELSE ReadError("utf8", 0)
    /\ rpc = "Err" => read_items = <<>>
    /\ HasBadLine => NothingApplied

C11_Witness ==
    /\ Len(file) = 3
    /\ LineClass(file[1]) = "item" /\ LineClass(file[2]) = "blank"
    /\ LineClass(file[3]) = "corrupt"
    /\ rpc = "Err" /\ rerror = ReadError("parse", 3) /\ read_items = <<>>
    /\ NothingApplied


----------------------------------------------------------------------------
(* Claims about the pipeline, checked under SpecPipeline *)

DistinctDsts ==
    \A i, j \in 1..Len(manifest) : i # j => manifest[i].dst # manifest[j].dst

NonDuplicates == { k \in 1..Len(manifest) : manifest[k].duplicate_of = None }
Dispatched == { calls[c].at : c \in 1..Len(calls) }
LoggedDuplicates == { dup_log[c].src : c \in 1..Len(dup_log) }

SrcA == PathStr(FileA.path)
SrcB == PathStr(FileB.path)
SrcC == PathStr(FileC.path)

\* inputs a.jpg and b.jpg with the same bytes, c.jpg with other bytes
Scenario ==
    /\ tree = {RootEntry, FileA, FileB, FileC}
    /\ DOMAIN env = {SrcA, SrcB, SrcC}
    /\ env[SrcA] = env[SrcB] /\ env[SrcA] # env[SrcC]

PlannedFor(src) == { k \in 1..Len(planned) : planned[k].src = src }

NoCallFailed == \A c \in 1..Len(calls) : calls[c].ok

\* C12: on an empty output tree, when the destinations of the plan are
\* pairwise distinct, an apply run that returns Ok has dispatched exactly the
\* items with duplicate_of None and skipped exactly the others as duplicates;
\* for a.jpg = b.jpg # c.jpg the plan has 3 Photo items, b.jpg is the
\* duplicate of a.jpg, and apply ends with skipped-duplicate 1 and, no copy
\* having failed, copied 2 and failed 0
C12_PlanThenApply ==
    /\ (apc = "Ok" /\ DistinctDsts) =>
         /\ manifest = planned
         /\ Dispatched = NonDuplicates
         /\ LoggedDuplicates = { manifest[k].src : k \in 1..Len(manifest) \ NonDuplicates }
         /\ summary.skipped_dupliace = Len(manifest) - Cardinality(NonDuplicates)
         /\ summary.skipped_existing = 0
    /\ (Scenario /\ Marked) =>
         /\ Len(planned) = 3
         /\ \A k \in 1..3 : planned[k].kind = "Photo"
         /\ \A k \in PlannedFor(SrcB) : planned[k].duplicate_of = Some(SrcA)
         /\ \A k \in PlannedFor(SrcA) \cup PlannedFor(SrcC) : planned[k].duplicate_of = None
         /\ apc = "Ok" =>
              /\ summary.total = 3 /\ summary.skipped_dupliace = 1
              /\ summary.copied + summary.failed = 2
              /\ NoCallFailed => (summary.copied = 2 /\ summary.failed = 0)

C12_Witness ==
    /\ Scenario /\ apc = "Ok" /\ NoCallFailed
    /\ summary.copied = 2 /\ summary.skipped_dupliace = 1 /\ summary.failed = 0
    /\ Cardinality({ f.path : f \in fs }) = 2
    /\ \E k \in 1..3 : manifest[k].src = SrcB /\ manifest[k].duplicate_of = Some(SrcA)

====
